---------------------------- MODULE Spec2Model ----------------------------
(***************************************************************************)
(* Model of cmd/apiregister-gen/generators/parser.go: the APIsBuilder that *)
(* indexes annotated type declarations and assembles the API model.        *)
(*                                                                         *)
(* Go strings are sequences of one-character strings, so that Split,       *)
(* Replace, TrimSuffix, LastIndex, Base and Dir are computed, not assumed. *)
(* Go maps are functions whose DOMAIN is the key set.  A fatal error       *)
(* (log.Fatalf, panic) is recorded in err and ends the run.                *)
(***************************************************************************)
EXTENDS Integers, Sequences, FiniteSets, TLC

VARIABLES
    pc,        \* position of the run
    universe,  \* generator.Context: Types, Order, Pkgs (Universe), Domain comment
    b,         \* the APIsBuilder fields
    loc,       \* locals of the function that is running
    err,       \* the fatal error that ended the run, or NoErr
    hist,      \* history: which steps have run
    input,     \* argument of a function applied on its own
    output     \* its result

vars == <<pc, universe, b, loc, err, hist, input, output>>

(***************************************************************************)
(* Bounds                                                                  *)
(***************************************************************************)
\* most comma-separated elements in a generated tag
MaxElems == 2
\* most +subresource directives on one type
MaxDirectives == 3
\* most declarations in context.Order
MaxOrder == 3
\* most members of one type in a generated type graph
MaxMembers == 2

(***************************************************************************)
(* Values                                                                  *)
(***************************************************************************)
Null == [null |-> TRUE]
NoErr == [kind |-> "none"]
EmptyMap == <<>>
EmptyString == <<>>

MapPut(m, k, v) == [x \in (DOMAIN m) \cup {k} |-> IF x = k THEN v ELSE m[x]]

s_comma == <<",">>
s_eq == <<"=">>
s_dot == <<".">>
s_slash == <<"/">>
s_rest == <<"r","e","s","t">>
s_path == <<"p","a","t","h">>
s_strategy == <<"s","t","r","a","t","e","g","y">>
s_group == <<"g","r","o","u","p">>
s_version == <<"v","e","r","s","i","o","n">>
s_kind == <<"k","i","n","d">>
s_resource == <<"r","e","s","o","u","r","c","e">>
s_request == <<"r","e","q","u","e","s","t">>
s_Strategy == <<"S","t","r","a","t","e","g","y">>
s_StatusStrategy == <<"S","t","a","t","u","s","S","t","r","a","t","e","g","y">>

(***************************************************************************)
(* package strings, path/filepath                                          *)
(***************************************************************************)
\* An operand that is used at several places of a definition is bound once,
\* as the only element of a set (CHOOSE r \in {F(x) : x \in {operand}} : TRUE
\* is F(operand)): TLC evaluates the operand of an operator again at each of
\* its uses when it evaluates ENABLED, a bound variable never.

\* the positions of s where sub starts (positions here count from 1)
Hits(s, sub) ==
    {i \in 1..(Len(s) - Len(sub) + 1) : SubSeq(s, i, i + Len(sub) - 1) = sub}

Least(S) == IF S = {} THEN 0 ELSE CHOOSE i \in S : \A j \in S : i <= j

Greatest(S) == IF S = {} THEN 0 ELSE CHOOSE i \in S : \A j \in S : i >= j

FirstHit(s, sub) == CHOOSE r \in {Least(x) : x \in {Hits(s, sub)}} : TRUE

LastHit(s, sub) == CHOOSE r \in {Greatest(x) : x \in {Hits(s, sub)}} : TRUE

\* strings.Index: the first position of sub in s, 0 when there is none
\* (Go's -1)
Index(s, sub) == CHOOSE r \in {FirstHit(x, y) : x \in {s}, y \in {sub}} : TRUE

\* strings.LastIndex
LastIndex(s, sub) == CHOOSE r \in {LastHit(x, y) : x \in {s}, y \in {sub}} : TRUE

Contains(s, sub) == Index(s, sub) # 0

HasSuffix(s, suffix) ==
    /\ Len(s) >= Len(suffix)
    /\ SubSeq(s, Len(s) - Len(suffix) + 1, Len(s)) = suffix

TrimSuffix(s, suffix) ==
    IF HasSuffix(s, suffix) THEN SubSeq(s, 1, Len(s) - Len(suffix)) ELSE s

\* strings.Split with a non-empty separator
RECURSIVE Split(_, _)
SplitAt(s, sep, i) ==
    IF i = 0
    THEN <<s>>
    ELSE <<SubSeq(s, 1, i - 1)>> \o Split(SubSeq(s, i + Len(sep), Len(s)), sep)

SplitOf(s, sep) == CHOOSE r \in {SplitAt(s, sep, i) : i \in {Index(s, sep)}} : TRUE

Split(s, sep) == CHOOSE r \in {SplitOf(x, y) : x \in {s}, y \in {sep}} : TRUE

\* strings.Replace with a non-empty old; n < 0 replaces every
\* non-overlapping occurrence, scanning from the left.
RECURSIVE ReplaceOf(_, _, _, _)
ReplaceAt(s, old, new, n, i) ==
    IF n = 0 \/ i = 0
    THEN s
    ELSE SubSeq(s, 1, i - 1) \o new
         \o ReplaceOf(SubSeq(s, i + Len(old), Len(s)), old, new, IF n < 0 THEN n ELSE n - 1)

ReplaceOf(s, old, new, n) ==
    CHOOSE r \in {ReplaceAt(s, old, new, n, i) : i \in {Index(s, old)}} : TRUE

Replace(s, old, new, n) ==
    CHOOSE r \in {ReplaceOf(x, y, new, n) : x \in {s}, y \in {old}} : TRUE

\* strings.Join
RECURSIVE Join(_, _)
Join(a, sep) ==
    IF a = <<>> THEN EmptyString
    ELSE IF Len(a) = 1 THEN a[1]
    ELSE a[1] \o sep \o Join(Tail(a), sep)

RECURSIVE StripTrailingSlashes(_)
StripTrailingSlashes(s) ==
    IF Len(s) > 0 /\ s[Len(s)] = "/" THEN StripTrailingSlashes(SubSeq(s, 1, Len(s) - 1)) ELSE s

\* the last element of a path that is not empty
LastElement(p) ==
    LET q == StripTrailingSlashes(p)
        i == LastIndex(q, s_slash)
        r == IF i = 0 THEN q ELSE SubSeq(q, i + 1, Len(q))
    IN IF r = EmptyString THEN s_slash ELSE r

\* filepath.Base / path.Base
Base(p) == IF p = EmptyString THEN s_dot ELSE CHOOSE r \in {LastElement(x) : x \in {p}} : TRUE

\* everything up to the last slash, cleaned of its trailing slashes
UpToLastSlash(p) ==
    LET d == SubSeq(p, 1, LastIndex(p, s_slash))
        q == StripTrailingSlashes(d)
    IN IF d = EmptyString THEN s_dot
       ELSE IF q = EmptyString THEN s_slash
       ELSE q

\* filepath.Dir / path.Dir, for paths with no ".", ".." or empty elements
Dir(p) == CHOOSE r \in {UpToLastSlash(x) : x \in {p}} : TRUE

(***************************************************************************)
(* Tag parsers                                                             *)
(***************************************************************************)
Fatal(kind, directive, tag) == [kind |-> kind, directive |-> directive, tag |-> tag]

\* a slip: only an element with no '=' is rejected
BadPair_TooFewOnly(kv) == Len(kv) < 2

\* the element is rejected: len(kv) != 2
BadPair(kv) == Len(kv) # 2

ResourceTags == [Resource |-> EmptyString, REST |-> EmptyString, Strategy |-> EmptyString]

\* a slip: the path case starts a fresh record instead of setting one field
ResourceTagCase_FreshRecord(result, key, value) ==
    IF key = s_rest THEN [result EXCEPT !.REST = value]
    ELSE IF key = s_path THEN [ResourceTags EXCEPT !.Resource = value]
    ELSE IF key = s_strategy THEN [result EXCEPT !.Strategy = value]
    ELSE result

\* the switch of ParseResourceTag
ResourceTagCase(result, key, value) ==
    IF key = s_rest THEN [result EXCEPT !.REST = value]
    ELSE IF key = s_path THEN [result EXCEPT !.Resource = value]
    ELSE IF key = s_strategy THEN [result EXCEPT !.Strategy = value]
    ELSE result

RECURSIVE ParseResourceElems(_, _, _)
ParseResourceElems(elems, result, tag) ==
    IF elems = <<>> THEN [err |-> NoErr, result |-> result]
    ELSE LET kv == Split(Head(elems), s_eq)
         IN IF BadPair(kv)
            THEN [err |-> Fatal("MalformedTag", "resource", tag), result |-> result]
            ELSE ParseResourceElems(Tail(elems), ResourceTagCase(result, kv[1], kv[2]), tag)

ParseResourceTag(tag) == ParseResourceElems(Split(tag, s_comma), ResourceTags, tag)

ControllerTags ==
    [gvk |-> [Group |-> EmptyString, Version |-> EmptyString, Kind |-> EmptyString],
     resource |-> EmptyString]

\* the switch of ParseControllerTag
ControllerTagCase(result, key, value) ==
    IF key = s_group THEN [result EXCEPT !.gvk.Group = value]
    ELSE IF key = s_version THEN [result EXCEPT !.gvk.Version = value]
    ELSE IF key = s_kind THEN [result EXCEPT !.gvk.Kind = value]
    ELSE IF key = s_resource THEN [result EXCEPT !.resource = value]
    ELSE result

RECURSIVE ParseControllerElems(_, _, _)
ParseControllerElems(elems, result, tag) ==
    IF elems = <<>> THEN [err |-> NoErr, result |-> result]
    ELSE LET kv == Split(Head(elems), s_eq)
         IN IF BadPair(kv)
            THEN [err |-> Fatal("MalformedTag", "controller", tag), result |-> result]
            ELSE ParseControllerElems(Tail(elems), ControllerTagCase(result, kv[1], kv[2]), tag)

ParseControllerTag(tag) == ParseControllerElems(Split(tag, s_comma), ControllerTags, tag)

SubresourceTags ==
    [Path |-> EmptyString, Kind |-> EmptyString, RequestKind |-> EmptyString,
     REST |-> EmptyString]

\* the switch of ParseSubresourceTag; c is the parent resource
SubresourceTagCase(c, result, key, value) ==
    IF key = s_request THEN [result EXCEPT !.RequestKind = value]
    ELSE IF key = s_rest THEN [result EXCEPT !.REST = value]
    ELSE IF key = s_path
         THEN [result EXCEPT !.Path = Replace(value, c.Resource \o s_slash, EmptyString, -1)]
    ELSE result

RECURSIVE ParseSubresourceElems(_, _, _, _)
ParseSubresourceElems(c, elems, result, tag) ==
    IF elems = <<>> THEN [err |-> NoErr, result |-> result]
    ELSE LET kv == Split(Head(elems), s_eq)
         IN IF BadPair(kv)
            THEN [err |-> Fatal("MalformedTag", "subresource", tag), result |-> result]
            ELSE ParseSubresourceElems(c, Tail(elems),
                                       SubresourceTagCase(c, result, kv[1], kv[2]), tag)

ParseSubresourceTag(c, tag) ==
    ParseSubresourceElems(c, Split(tag, s_comma), SubresourceTags, tag)

(***************************************************************************)
(* Tags drawn for the parsers.  An element is written as its parts, joined *)
(* by "=": two parts make a key/value pair, one or three a malformed one.  *)
(***************************************************************************)
v_w == <<"w">>
v_v == <<"v">>
v_R == <<"R">>
v_S == <<"S">>
v_x == <<"x">>
v_y == <<"y">>
v_a == <<"a">>
v_b == <<"b">>
v_c == <<"c">>
v_g == <<"g">>
v_h == <<"h">>
v_K == <<"K">>
v_J == <<"J">>
v_Q == <<"Q">>
v_v1 == <<"v","1">>
v_v2 == <<"v","2">>
v_ks == <<"k","s">>
v_bad == <<"b","a","d">>
v_scale == <<"s","c","a","l","e">>
v_ks_scale == <<"k","s","/","s","c","a","l","e">>

ElemOf(parts) == Join(parts, s_eq)

RECURSIVE ElemsOf(_)
ElemsOf(es) == IF es = <<>> THEN <<>> ELSE <<ElemOf(Head(es))>> \o ElemsOf(Tail(es))

\* the raw tag string of a list of elements
TagOf(es) == Join(ElemsOf(es), s_comma)

SeqsUpTo(S, n) == UNION {[1..k -> S] : k \in 1..n}

ResourceElemPool ==
    { <<s_path, v_w>>, <<s_path, v_v>>, <<s_rest, v_R>>, <<s_strategy, v_S>>,
      <<s_strategy, EmptyString>>, <<v_x, v_y>>, <<EmptyString, v_v>>,
      <<v_bad>>, <<v_a, v_b, v_c>>, <<EmptyString>> }

ControllerElemPool ==
    { <<s_group, v_g>>, <<s_version, v_v1>>, <<s_kind, v_K>>, <<s_kind, v_J>>,
      <<s_resource, v_ks>>, <<v_x, v_y>>, <<v_bad>>, <<v_a, v_b, v_c>> }

SubresourceElemPool ==
    { <<s_request, v_Q>>, <<s_rest, v_R>>, <<s_path, v_ks_scale>>, <<s_path, v_scale>>,
      <<v_x, v_y>>, <<v_bad>>, <<v_a, v_b, v_c>> }

ElemPool(parser) ==
    CASE parser = "resource" -> ResourceElemPool
      [] parser = "controller" -> ControllerElemPool
      [] parser = "subresource" -> SubresourceElemPool

TagSpecs(parser) == SeqsUpTo(ElemPool(parser), MaxElems)

ParentResources(parser) ==
    IF parser = "subresource" THEN {v_ks, EmptyString} ELSE {EmptyString}

(***************************************************************************)
(* SpecTags: one of the three parsers applied to a drawn tag               *)
(***************************************************************************)
InitTags ==
    /\ \E parser \in {"resource", "controller", "subresource"} :
         \E es \in TagSpecs(parser) :
           \E r \in ParentResources(parser) :
             input = [parser |-> parser, tag |-> TagOf(es), c |-> [Resource |-> r]]
    /\ pc = "tag"
    /\ output = Null
    /\ universe = Null
    /\ b = Null
    /\ loc = Null
    /\ err = NoErr
    /\ hist = Null

ApplyTagParser ==
    /\ pc = "tag"
    /\ output' = CASE input.parser = "resource" -> ParseResourceTag(input.tag)
                   [] input.parser = "controller" -> ParseControllerTag(input.tag)
                   [] input.parser = "subresource" -> ParseSubresourceTag(input.c, input.tag)
    /\ pc' = "parsed"
    /\ err' = output'.err
    /\ UNCHANGED <<universe, b, loc, hist, input>>

NextTags == ApplyTagParser

SpecTags == InitTags /\ [][NextTags]_vars


(***************************************************************************)
(* Properties of the tag parsers                                           *)
(***************************************************************************)
\* the number of '=' in a raw element
EqCount(s) == Cardinality({i \in DOMAIN s : s[i] = "="})

\* the value of the last key/value element with this key, "" when none
LastValue(es, key) ==
    LET at == {i \in DOMAIN es : Len(es[i]) = 2 /\ es[i][1] = key}
    IN IF at = {} THEN EmptyString
       ELSE es[CHOOSE i \in at : \A j \in at : i >= j][2]

\* the elements the drawn tag was written from
ElemsOfInput == {es \in TagSpecs(input.parser) : TagOf(es) = input.tag}

ExpectedTags(parser, c, es) ==
    CASE parser = "resource" ->
           [Resource |-> LastValue(es, s_path), REST |-> LastValue(es, s_rest),
            Strategy |-> LastValue(es, s_strategy)]
      [] parser = "controller" ->
           [gvk |-> [Group |-> LastValue(es, s_group), Version |-> LastValue(es, s_version),
                     Kind |-> LastValue(es, s_kind)],
            resource |-> LastValue(es, s_resource)]
      [] parser = "subresource" ->
           [Path |-> Replace(LastValue(es, s_path), c.Resource \o s_slash, EmptyString, -1),
            Kind |-> EmptyString,
            RequestKind |-> LastValue(es, s_request),
            REST |-> LastValue(es, s_rest)]

\* C3: each of the three parsers fails fatally (reporting the raw tag) exactly
\* when some comma-separated element does not contain exactly one '=';
\* otherwise every field holds the value of the last element with its key, so
\* that recognized keys set their field and unrecognized keys change nothing.
C3_TagParsers ==
    pc = "parsed" =>
      \A es \in ElemsOfInput :
        /\ (output.err # NoErr) <=> (\E i \in DOMAIN es : EqCount(ElemOf(es[i])) # 1)
        /\ output.err # NoErr =>
             output.err = [kind |-> "MalformedTag", directive |-> input.parser,
                           tag |-> input.tag]
        /\ output.err = NoErr => output.result = ExpectedTags(input.parser, input.c, es)

\* a +subresource tag with a recognized and an unrecognized key has been parsed
C3_Witness ==
    /\ pc = "parsed"
    /\ input.parser = "subresource"
    /\ input.tag = TagOf(<< <<s_request, v_Q>>, <<v_x, v_y>> >>)
    /\ output.err = NoErr
    /\ output.result.RequestKind = v_Q

Perms(n) == {f \in [1..n -> 1..n] : \A i, j \in 1..n : f[i] = f[j] => i = j}

Permute(es, f) == [i \in DOMAIN es |-> es[f[i]]]

RecognizedResourceKeys == {s_rest, s_path, s_strategy}

\* two elements give one recognized key two different values
KeyConflict(es) ==
    \E i, j \in DOMAIN es :
      /\ Len(es[i]) = 2 /\ Len(es[j]) = 2
      /\ es[i][1] = es[j][1]
      /\ es[i][1] \in RecognizedResourceKeys
      /\ es[i][2] # es[j][2]

\* C4 as stated: the record parsed from a valid +resource tag is the same for
\* every permutation of the tag's elements.
C4_AnyOrder ==
    (pc = "parsed" /\ input.parser = "resource" /\ output.err = NoErr) =>
      \A es \in ElemsOfInput :
        \A f \in Perms(Len(es)) :
          ParseResourceTag(TagOf(Permute(es, f))) = output

\* C4 amended: the record parsed from a valid +resource tag is the same for
\* every permutation of the tag's elements, provided no recognized key is
\* given two different values (the last element with a key wins).
C4_OrderOfDistinctKeys ==
    (pc = "parsed" /\ input.parser = "resource" /\ output.err = NoErr) =>
      \A es \in ElemsOfInput :
        ~KeyConflict(es) =>
          \A f \in Perms(Len(es)) :
            ParseResourceTag(TagOf(Permute(es, f))) = output

\* a valid +resource tag with two different recognized keys has been parsed
C4_Witness ==
    /\ pc = "parsed"
    /\ input.parser = "resource"
    /\ input.tag = TagOf(<< <<s_path, v_w>>, <<s_rest, v_R>> >>)
    /\ output.err = NoErr
    /\ output.result = [Resource |-> v_w, REST |-> v_R, Strategy |-> EmptyString]

(***************************************************************************)
(* Subresource resolver                                                    *)
(***************************************************************************)
\* Returns true if the subresource Request type is in the same package as the
\* resource type
IsInPackage(tags) == ~Contains(tags.RequestKind, s_dot)

\* a slip: the request type is split at its first '.', not its last
GetNameAndImport_FirstDot(tags) ==
    LET last == Index(tags.RequestKind, s_dot)
        importPackage == SubSeq(tags.RequestKind, 1, last - 1)
        name == SubSeq(tags.RequestKind, last + 1, Len(tags.RequestKind))
    IN [Request |-> Join(<<Base(importPackage), name>>, s_dot),
        ImportPackage |-> importPackage]

GetNameAndImport(tags) ==
    LET last == LastIndex(tags.RequestKind, s_dot)
        importPackage == SubSeq(tags.RequestKind, 1, last - 1)
        name == SubSeq(tags.RequestKind, last + 1, Len(tags.RequestKind))
    IN [Request |-> Join(<<Base(importPackage), name>>, s_dot),
        ImportPackage |-> importPackage]

\* the descriptor built for one directive (parser.go:348-362)
NewAPISubresource(domain, c, tags) ==
    LET sr == [Kind |-> tags.Kind, Request |-> tags.RequestKind, Path |-> tags.Path,
               REST |-> tags.REST, Domain |-> domain, Version |-> c.Version,
               Resource |-> c.Resource, Group |-> c.Group,
               ImportPackage |-> EmptyString]
    IN IF ~IsInPackage(tags)
       THEN LET ni == GetNameAndImport(tags)
            IN [sr EXCEPT !.Request = ni.Request, !.ImportPackage = ni.ImportPackage]
       ELSE sr

\* a slip: the duplicate check is dropped and a later directive overwrites
Registered_Never(r, path) == FALSE

\* v, found := r[sr.Path]
Registered(r, path) == path \in DOMAIN r

RECURSIVE GetSubresourcesLoop(_, _, _, _)
GetSubresourcesLoop(domain, c, subresources, r) ==
    IF subresources = <<>> THEN [err |-> NoErr, r |-> r]
    ELSE LET subresource == Head(subresources)
             parsed == ParseSubresourceTag(c, subresource)
         IN IF parsed.err # NoErr THEN [err |-> parsed.err, r |-> r]
            ELSE LET sr == NewAPISubresource(domain, c, parsed.result)
                 IN IF Registered(r, sr.Path)
                    THEN [err |-> [kind |-> "DuplicateSubresource", path |-> sr.Path,
                                   v |-> r[sr.Path], subresource |-> subresource],
                          r |-> r]
                    ELSE GetSubresourcesLoop(domain, c, Tail(subresources),
                                             MapPut(r, sr.Path, sr))

\* subresources are the +subresource tags of c.Type, in comment order
GetSubresources(domain, c, subresources) ==
    GetSubresourcesLoop(domain, c, subresources, EmptyMap)

(***************************************************************************)
(* SpecSub: GetSubresources applied to a drawn resource and directive list *)
(***************************************************************************)
v_d == <<"d">>
v_ks_x == <<"k","s","/","x">>
v_ks_ks_y == <<"k","s","/","k","s","/","y">>
v_kks_s_z == <<"k","k","s","/","s","/","z">>
v_abcQ == <<"a",".","b","/","c",".","Q">>
v_dotQ == <<".","Q">>
v_xyQ == <<"x",".","y",".","Q">>

DirectivePool ==
    { << <<s_request, v_Q>>, <<s_path, v_ks_scale>>, <<s_rest, v_R>> >>,
      << <<s_path, v_scale>> >>,
      << <<s_request, v_abcQ>>, <<s_path, v_ks_x>> >>,
      << <<v_bad>> >>,
      << <<s_request, v_dotQ>> >>,
      << <<s_rest, v_R>>, <<v_x, v_y>> >>,
      << <<s_path, v_ks_ks_y>>, <<s_request, v_Q>> >>,
      << <<s_request, v_xyQ>>, <<s_path, v_kks_s_z>> >> }

DirectiveLists == {<<>>} \cup SeqsUpTo(DirectivePool, MaxDirectives)

RECURSIVE TagsOf(_)
TagsOf(ds) == IF ds = <<>> THEN <<>> ELSE <<TagOf(Head(ds))>> \o TagsOf(Tail(ds))

InitSub ==
    /\ \E ds \in DirectiveLists :
         \E r \in {v_ks, EmptyString} :
           input = [domain |-> v_d,
                    c |-> [Group |-> v_g, Version |-> v_v1, Kind |-> v_K, Resource |-> r],
                    subresources |-> TagsOf(ds)]
    /\ pc = "subresources"
    /\ output = Null
    /\ universe = Null
    /\ b = Null
    /\ loc = Null
    /\ err = NoErr
    /\ hist = Null

ApplyGetSubresources ==
    /\ pc = "subresources"
    /\ output' = GetSubresources(input.domain, input.c, input.subresources)
    /\ pc' = "resolved"
    /\ err' = output'.err
    /\ UNCHANGED <<universe, b, loc, hist, input>>

NextSub == ApplyGetSubresources

SpecSub == InitSub /\ [][NextSub]_vars

(***************************************************************************)
(* Properties of the subresource resolver                                  *)
(***************************************************************************)
Min(S) == CHOOSE x \in S : \A y \in S : x <= y
Max(S) == CHOOSE x \in S : \A y \in S : x >= y

\* s without the characters of any occurrence of old in s
WithoutOccurrences(s, old) ==
    LET occ == {i \in 1..(Len(s) - Len(old) + 1) : SubSeq(s, i, i + Len(old) - 1) = old}
        kept == {k \in 1..Len(s) : \A i \in occ : k < i \/ k >= i + Len(old)}
    IN [n \in 1..Cardinality(kept) |->
          s[CHOOSE k \in kept : Cardinality({m \in kept : m <= k}) = n]]

BeforeLast(s, ch) == SubSeq(s, 1, Max({i \in DOMAIN s : s[i] = ch}) - 1)

AfterLast(s, ch) ==
    LET at == {i \in DOMAIN s : s[i] = ch}
    IN IF at = {} THEN s ELSE SubSeq(s, Max(at) + 1, Len(s))

\* the last element of a package path, "." for the empty path
BaseName(p) == IF p = EmptyString THEN <<".">> ELSE AfterLast(p, "/")

\* the elements the i-th drawn directive was written from
DirectiveAt(i) == CHOOSE es \in DirectivePool : TagOf(es) = input.subresources[i]

WellFormed(es) == \A k \in DOMAIN es : EqCount(ElemOf(es[k])) = 1

ResolvedPath(es) == WithoutOccurrences(LastValue(es, s_path), input.c.Resource \o <<"/">>)

Collide(i, j) ==
    /\ i < j
    /\ WellFormed(DirectiveAt(i)) /\ WellFormed(DirectiveAt(j))
    /\ ResolvedPath(DirectiveAt(i)) = ResolvedPath(DirectiveAt(j))

NDirectives == Len(input.subresources)

\* the first malformed directive, NDirectives + 1 when there is none
FirstBad == Min({i \in 1..NDirectives : ~WellFormed(DirectiveAt(i))} \cup {NDirectives + 1})

\* the first directive whose path an earlier one has, NDirectives + 1 when none
FirstDup ==
    Min({j \in 1..NDirectives : \E i \in 1..NDirectives : Collide(i, j)} \cup {NDirectives + 1})

OnePerDirective ==
    /\ Cardinality(DOMAIN output.r) = NDirectives
    /\ \A i \in 1..NDirectives : ResolvedPath(DirectiveAt(i)) \in DOMAIN output.r
    /\ \A i, j \in 1..NDirectives :
         i # j => ResolvedPath(DirectiveAt(i)) # ResolvedPath(DirectiveAt(j))

DuplicateReported(j) ==
    /\ output.err.kind = "DuplicateSubresource"
    /\ output.err.path = ResolvedPath(DirectiveAt(j))
    /\ output.err.subresource = input.subresources[j]
    /\ \E i \in 1..NDirectives :
         /\ Collide(i, j)
         /\ output.err.v.Path = ResolvedPath(DirectiveAt(i))
         /\ output.err.v.REST = LastValue(DirectiveAt(i), s_rest)

\* C2 as stated: whenever two directives resolve to the same path,
\* GetSubresources fails with the duplicate-path error naming both; whenever it
\* returns, the map has one descriptor per directive and no path is shared.
C2_DuplicateAlwaysReported ==
    pc = "resolved" =>
      /\ (\E i, j \in 1..NDirectives : Collide(i, j)) => DuplicateReported(FirstDup)
      /\ output.err = NoErr => OnePerDirective

\* C2 amended: whenever two directives resolve to the same path,
\* GetSubresources fails fatally; the failure is the duplicate-path error,
\* carrying the path, the descriptor already registered under it and the later
\* directive's string, unless a malformed directive comes before the second
\* directive of the first colliding pair, and then it is the malformed-tag
\* error for that directive.  Whenever it returns, the map has one descriptor
\* per directive and no two directives share a path.
C2_DuplicateOrMalformedFirst ==
    pc = "resolved" =>
      /\ (\E i, j \in 1..NDirectives : Collide(i, j)) => output.err # NoErr
      /\ FirstDup < FirstBad => DuplicateReported(FirstDup)
      /\ FirstBad < FirstDup =>
           output.err = [kind |-> "MalformedTag", directive |-> "subresource",
                         tag |-> input.subresources[FirstBad]]
      /\ output.err = NoErr => OnePerDirective

\* two directives resolving to path "scale" on resource "ks" have been refused
C2_Witness ==
    /\ pc = "resolved"
    /\ input.c.Resource = v_ks
    /\ input.subresources
         = <<TagOf(<< <<s_request, v_Q>>, <<s_path, v_ks_scale>>, <<s_rest, v_R>> >>),
             TagOf(<< <<s_path, v_scale>> >>)>>
    /\ output.err.kind = "DuplicateSubresource"
    /\ output.err.path = v_scale

\* C6: every directive GetSubresources accepts is stored under the key equal
\* to its Path, the directive's path value with every occurrence of "R/"
\* removed; a request type without '.' is kept and has no import; with a '.',
\* ImportPackage is the text before the last '.' and Request is
\* "<base name of ImportPackage>.<text after the last '.'>".
C6_Descriptor ==
    pc = "resolved" =>
      \A i \in 1..NDirectives :
        (i < FirstBad /\ i < FirstDup) =>
          LET es == DirectiveAt(i)
              p == ResolvedPath(es)
              req == LastValue(es, s_request)
          IN /\ p \in DOMAIN output.r
             /\ output.r[p].Path = p
             /\ output.r[p].REST = LastValue(es, s_rest)
             /\ output.r[p].Resource = input.c.Resource
             /\ (\A k \in DOMAIN req : req[k] # ".") =>
                  /\ output.r[p].Request = req
                  /\ output.r[p].ImportPackage = EmptyString
             /\ (\E k \in DOMAIN req : req[k] = ".") =>
                  /\ output.r[p].ImportPackage = BeforeLast(req, ".")
                  /\ output.r[p].Request
                       = BaseName(BeforeLast(req, ".")) \o <<".">> \o AfterLast(req, ".")

\* a local and a package-qualified request type have been resolved on "ks"
C6_Witness ==
    /\ pc = "resolved"
    /\ input.c.Resource = v_ks
    /\ input.subresources
         = <<TagOf(<< <<s_request, v_Q>>, <<s_path, v_ks_scale>>, <<s_rest, v_R>> >>),
             TagOf(<< <<s_request, v_xyQ>>, <<s_path, v_kks_s_z>> >>)>>
    /\ output.err = NoErr
    /\ DOMAIN output.r = {v_scale, <<"k","s","/","z">>}
    /\ output.r[v_scale].Request = v_Q
    /\ output.r[v_scale].ImportPackage = EmptyString
    /\ output.r[<<"k","s","/","z">>].Request = <<"x",".","y",".","Q">>
    /\ output.r[<<"k","s","/","z">>].ImportPackage = <<"x",".","y">>

(***************************************************************************)
(* The declaration universe (generator.Context)                            *)
(*   u.Types  the type declarations, by identity                           *)
(*   u.Order  context.Order, the declarations in visiting order            *)
(*   u.Pkgs   the package paths that context.Universe holds                *)
(*   u.Domain the value of "+domain=" in the comments of the apis package  *)
(* A declaration carries what the classifiers and accessors of the         *)
(* generator report for it and the values of its comment tags.             *)
(***************************************************************************)
p_r == <<"r">>
p_rg == <<"r","/","g">>
p_rh == <<"r","/","h">>
p_rgv1 == <<"r","/","g","/","v","1">>
p_rgv2 == <<"r","/","g","/","v","2">>
p_rhv1 == <<"r","/","h","/","v","1">>
p_qgv1 == <<"q","/","g","/","v","1">>
p_ctl == <<"r","/","p","k","g","/","c","o","n","t","r","o","l","l","e","r","/","k">>
s_pkg_controller == <<"/","p","k","g","/","c","o","n","t","r","o","l","l","e","r">>
s_metav1_pkg == <<"k","8","s",".","i","o","/","a","p","i","m","a","c","h","i","n","e","r","y","/","p","k","g","/","a","p","i","s","/","m","e","t","a","/","v","1">>
s_metav1 == <<"m","e","t","a","v","1">>
v_MyStrategy == <<"M","y","S","t","r","a","t","e","g","y">>
v_g_KS == <<"g",".","K","S">>
v_kz == <<"k","z">>
v_js == <<"j","s">>
v_js_scale == <<"j","s","/","s","c","a","l","e">>
v_KS == <<"K","S">>
v_string == <<"s","t","r","i","n","g">>
n_ObjectMeta == <<"O","b","j","e","c","t","M","e","t","a">>

\* a types.Type with no tags and no members
TypeDecl(pkg, name, group, version) ==
    [Name |-> [Package |-> pkg, Name |-> name],
     Group |-> group, Version |-> version, Kind |-> name,
     IsAPIResource |-> FALSE, IsController |-> FALSE, IsAPISubresource |-> FALSE,
     HasSubresource |-> FALSE, IsNonNamespaced |-> FALSE,
     ResourceTag |-> EmptyString, ControllerTag |-> EmptyString,
     SubresourceTags |-> <<>>,
     SubresourceRequest |-> FALSE, NoUnversioned |-> FALSE,
     Members |-> <<>>, IsPrimitive |-> FALSE, Elem |-> 0]

Member(name, embedded, type) == [Name |-> name, Embedded |-> embedded, Type |-> type]

\* classifiers and accessors of the generator, as reported for declaration c
IsAPIResource(u, c) == u.Types[c].IsAPIResource
IsController(u, c) == u.Types[c].IsController
IsAPISubresource(u, c) == u.Types[c].IsAPISubresource
HasSubresource(u, c) == u.Types[c].HasSubresource
IsNonNamespaced(u, c) == u.Types[c].IsNonNamespaced
GetGroup(u, c) == u.Types[c].Group
GetVersion(u, c) == u.Types[c].Version
GetKind(u, c) == u.Types[c].Kind

\* context.Universe[p]: the package, nil when the universe holds none
Nil == Null
UniversePkg(u, p) == IF p \in u.Pkgs THEN [Path |-> p] ELSE Nil

\* GetResourceTag: the "+resource" tag, a panic when the type has none
GetResourceTag(u, c) ==
    IF Len(u.Types[c].ResourceTag) = 0
    THEN [err |-> [kind |-> "MissingDirective", directive |-> "resource",
                   name |-> u.Types[c].Name],
          tag |-> EmptyString]
    ELSE [err |-> NoErr, tag |-> u.Types[c].ResourceTag]

\* GetControllerTag: the "+controller" tag, a panic when the type has none
GetControllerTag(u, c) ==
    IF Len(u.Types[c].ControllerTag) = 0
    THEN [err |-> [kind |-> "MissingDirective", directive |-> "controller",
                   name |-> u.Types[c].Name],
          tag |-> EmptyString]
    ELSE [err |-> NoErr, tag |-> u.Types[c].ControllerTag]

GetSubresourceTags(u, c) == u.Types[c].SubresourceTags

\* GenClient: the type has a "+resource" tag
GenClient(u, c) == Len(u.Types[c].ResourceTag) > 0

\* GenDeepCopy: the type has the "subresource-request" tag
GenDeepCopy(u, c) == u.Types[c].SubresourceRequest

(***************************************************************************)
(* APIsBuilder                                                             *)
(***************************************************************************)
\* &APIsBuilder{context: context, arguments: arguments}
NewBuilder ==
    [Domain |-> EmptyString, VersionedPkgs |-> {}, UnversionedPkgs |-> {},
     APIsPkg |-> EmptyString, GroupNames |-> {}, APIs |-> Nil, Controllers |-> <<>>,
     ByGroupKindVersion |-> EmptyMap, ByGroupVersionKind |-> EmptyMap,
     SubByGroupVersionKind |-> EmptyMap]

\* ParsePackages, from declaration i of the order on
RECURSIVE ParsePackagesFrom(_, _, _)
ParsePackagesFrom(u, bb, i) ==
    IF i > Len(u.Order) THEN [err |-> NoErr, b |-> bb]
    ELSE LET o == u.Order[i]
         IN IF ~IsAPIResource(u, o) THEN ParsePackagesFrom(u, bb, i + 1)
            ELSE LET versioned == u.Types[o].Name.Package
                     unversioned == Dir(versioned)
                     apis == Dir(unversioned)
                     b1 == [bb EXCEPT !.VersionedPkgs = @ \cup {versioned},
                                      !.UnversionedPkgs = @ \cup {unversioned}]
                 IN IF apis # bb.APIsPkg /\ Len(bb.APIsPkg) > 0
                    THEN [err |-> [kind |-> "MultipleAPIsDirs", first |-> bb.APIsPkg,
                                   second |-> apis],
                          b |-> b1]
                    ELSE ParsePackagesFrom(u, [b1 EXCEPT !.APIsPkg = apis], i + 1)

\* ParseDomain
ParseDomainOf(u, bb) ==
    IF UniversePkg(u, bb.APIsPkg) = Nil
    THEN [err |-> [kind |-> "MissingAPIsPackage"], b |-> bb]
    ELSE IF Len(u.Domain) = 0
    THEN [err |-> [kind |-> "MissingDomain"], b |-> [bb EXCEPT !.Domain = u.Domain]]
    ELSE [err |-> NoErr, b |-> [bb EXCEPT !.Domain = u.Domain]]

\* ParseGroupNames
ParseGroupNamesOf(u, bb) ==
    [bb EXCEPT !.GroupNames =
        {Base(p) : p \in {q \in bb.UnversionedPkgs : UniversePkg(u, q) # Nil}}]

\* a slip: the inner maps are made afresh on every insert
Put3_Fresh(m, k1, k2, k3, v) == MapPut(m, k1, MapPut(EmptyMap, k2, MapPut(EmptyMap, k3, v)))

\* a slip: an entry that is there already is kept
Put3_KeepFirst(m, k1, k2, k3, v) ==
    IF k1 \in DOMAIN m /\ k2 \in DOMAIN m[k1] /\ k3 \in DOMAIN m[k1][k2] THEN m
    ELSE Put3_Fresh(m, k1, k2, k3, v)

\* m[k1][k2][k3] = v, making the inner maps that are not there yet
Put3(m, k1, k2, k3, v) ==
    LET m1 == IF k1 \in DOMAIN m THEN m[k1] ELSE EmptyMap
        m2 == IF k2 \in DOMAIN m1 THEN m1[k2] ELSE EmptyMap
    IN MapPut(m, k1, MapPut(m1, k2, MapPut(m2, k3, v)))

\* fmt.Sprintf("%s.%sStrategy", r.Group, r.Kind)
DefaultStrategy(group, kind) == group \o s_dot \o kind \o s_Strategy

\* a slip: the status strategy is the strategy with "Status" put in front
StatusStrategyOf_Prefix(strategy) == <<"S","t","a","t","u","s">> \o strategy

\* strings.TrimSuffix(r.Strategy, "Strategy") followed by "StatusStrategy"
StatusStrategyOf(strategy) == TrimSuffix(strategy, s_Strategy) \o s_StatusStrategy

\* the resource built for declaration c from its parsed tag (parser.go:287-310)
NewAPIResource(u, bb, c, rt) ==
    LET strategy == IF Len(rt.Strategy) = 0
                    THEN DefaultStrategy(GetGroup(u, c), GetKind(u, c))
                    ELSE rt.Strategy
    IN [Type |-> c, NonNamespaced |-> IsNonNamespaced(u, c),
        Group |-> GetGroup(u, c), Version |-> GetVersion(u, c), Kind |-> GetKind(u, c),
        Domain |-> bb.Domain, Resource |-> rt.Resource, REST |-> rt.REST,
        Strategy |-> strategy, StatusStrategy |-> StatusStrategyOf(strategy),
        Subresources |-> EmptyMap]

\* both indices hold r (parser.go:312-326; r is one pointer in both)
IndexResource(bb, r) ==
    [bb EXCEPT !.ByGroupKindVersion = Put3(@, r.Group, r.Kind, r.Version, r),
               !.ByGroupVersionKind = Put3(@, r.Group, r.Version, r.Kind, r)]

\* one round of the loop of ParseIndex, for declaration c
IndexDecl(u, bb, c) ==
    LET b1 == IF IsAPISubresource(u, c)
              THEN [bb EXCEPT !.SubByGroupVersionKind =
                                Put3(@, GetGroup(u, c), GetVersion(u, c), GetKind(u, c), c)]
              ELSE bb
    IN IF ~IsAPIResource(u, c) THEN [err |-> NoErr, b |-> b1]
       ELSE LET tag == GetResourceTag(u, c)
            IN IF tag.err # NoErr THEN [err |-> tag.err, b |-> b1]
               ELSE LET parsed == ParseResourceTag(tag.tag)
                    IN IF parsed.err # NoErr THEN [err |-> parsed.err, b |-> b1]
                       ELSE LET r == NewAPIResource(u, b1, c, parsed.result)
                                b2 == IndexResource(b1, r)
                            IN IF ~HasSubresource(u, c) THEN [err |-> NoErr, b |-> b2]
                               ELSE LET subs == GetSubresources(b2.Domain, r,
                                                                GetSubresourceTags(u, c))
                                    IN IF subs.err # NoErr
                                       THEN [err |-> subs.err, b |-> b2]
                                       ELSE [err |-> NoErr,
                                             b |-> IndexResource(b2,
                                                     [r EXCEPT !.Subresources = subs.r])]

\* the maps ParseIndex starts from (parser.go:265-268)
ParseIndexInit(bb) ==
    [bb EXCEPT !.ByGroupVersionKind = EmptyMap, !.ByGroupKindVersion = EmptyMap,
               !.SubByGroupVersionKind = EmptyMap]

\* the loop of ParseIndex over order, from declaration i on
RECURSIVE ParseIndexFrom(_, _, _, _)
ParseIndexFrom(u, order, bb, i) ==
    IF i > Len(order) THEN [err |-> NoErr, b |-> bb]
    ELSE LET step == IndexDecl(u, bb, order[i])
         IN IF step.err # NoErr THEN step
            ELSE ParseIndexFrom(u, order, step.b, i + 1)

\* the controller appended for declaration c (parser.go:197-201)
RECURSIVE ParseControllersFrom(_, _, _)
ParseControllersFrom(u, bb, i) ==
    IF i > Len(u.Order) THEN [err |-> NoErr, b |-> bb]
    ELSE LET c == u.Order[i]
         IN IF ~IsController(u, c) THEN ParseControllersFrom(u, bb, i + 1)
            ELSE LET tag == GetControllerTag(u, c)
                 IN IF tag.err # NoErr THEN [err |-> tag.err, b |-> bb]
                    ELSE LET parsed == ParseControllerTag(tag.tag)
                         IN IF parsed.err # NoErr THEN [err |-> parsed.err, b |-> bb]
                            ELSE LET repo == Split(u.Types[c].Name.Package, s_pkg_controller)[1]
                                     pkg == UniversePkg(u, u.Types[c].Name.Package)
                                     ctl == [Target |-> parsed.result.gvk,
                                             Resource |-> parsed.result.resource,
                                             Pkg |-> pkg, Repo |-> repo]
                                 IN ParseControllersFrom(u,
                                        [bb EXCEPT !.Controllers = Append(@, ctl)], i + 1)

(***************************************************************************)
(* Struct/field flattening                                                 *)
(***************************************************************************)
\* types.Name.String(): "<package>.<name>", the bare name without a package
TypeString(u, c) ==
    IF Len(u.Types[c].Name.Package) = 0 THEN u.Types[c].Name.Name
    ELSE u.Types[c].Name.Package \o s_dot \o u.Types[c].Name.Name

\* uType and uImport of a member of another package that is not meta/v1
\* (parser.go:650-663), e the element type when there is one
UnversionedElsewhere(u, member, hasElem, e) ==
    LET Of(uImport) ==
          [uType |-> IF hasElem
                     THEN Replace(Replace(TypeString(u, member.Type),
                                          Dir(uImport) \o s_slash, EmptyString, 1),
                                  s_slash \o Base(e.Name.Package), EmptyString, 1)
                     ELSE Base(Dir(e.Name.Package)) \o s_dot \o e.Name.Name,
           uImport |-> uImport]
    IN CHOOSE r \in {Of(x) : x \in {Dir(e.Name.Package)}} : TRUE

\* the unversioned type and import of a member (parser.go:631-667)
UnversionedOf(u, t, member) ==
    LET mt == u.Types[member.Type]
        samepkg == u.Types[t].Name.Package = mt.Name.Package
        keep == [uType |-> mt.Name.Name, uImport |-> EmptyString]
        Of(parts) ==
          IF Len(parts) <= 1 THEN keep
          ELSE IF mt.Name.Package = s_metav1_pkg
          THEN [uType |-> s_metav1 \o s_dot \o parts[2],
                uImport |-> s_metav1 \o <<" ", "\"">> \o s_metav1_pkg \o <<"\"">>]
          ELSE UnversionedElsewhere(u, member, mt.Elem # 0,
                                    IF mt.Elem # 0 THEN u.Types[mt.Elem] ELSE mt)
    IN IF samepkg THEN keep
       ELSE CHOOSE r \in {Of(x) : x \in {Split(Base(TypeString(u, member.Type)), s_dot)}} : TRUE

\* s.Fields = append(s.Fields, &Field{...})
FieldOf(u, t, member) ==
    LET Of(un) == [Name |-> IF member.Embedded THEN EmptyString ELSE member.Name,
                   VersionedPackage |-> u.Types[member.Type].Name.Package,
                   UnversionedImport |-> un.uImport,
                   UnversionedType |-> un.uType]
    IN CHOOSE r \in {Of(x) : x \in {UnversionedOf(u, t, member)}} : TRUE

\* a slip: members of other groups are followed too
FollowMember_AnyGroup(u, t, member) == ~u.Types[member.Type].IsPrimitive

\* a slip: primitive members are followed too
FollowMember_Primitive(u, t, member) == GetGroup(u, member.Type) = GetGroup(u, t)

\* !member.Type.IsPrimitive() && memberGroup == GetGroup(t)
FollowMember(u, t, member) ==
    /\ ~u.Types[member.Type].IsPrimitive
    /\ GetGroup(u, member.Type) = GetGroup(u, t)

\* the member types DoType returns for further processing, in member order
RECURSIVE AdditionalTypes(_, _, _)
AdditionalTypes(u, t, members) ==
    IF members = <<>> THEN <<>>
    ELSE (IF FollowMember(u, t, Head(members)) THEN <<Head(members).Type>> ELSE <<>>)
         \o AdditionalTypes(u, t, Tail(members))

DoType(u, t) ==
    [s |-> [Name |-> u.Types[t].Name.Name,
            GenClient |-> FALSE,
            GenDeepCopy |-> FALSE,
            GenUnversioned |-> ~u.Types[t].NoUnversioned,
            Fields |-> [i \in DOMAIN u.Types[t].Members |->
                          FieldOf(u, t, u.Types[t].Members[i])]],
     remaining |-> AdditionalTypes(u, t, u.Types[t].Members)]

\* a slip: the head is read and left in the list
PopRemaining_Stay(remaining) == remaining

\* a slip: the element is popped without moving the last one into its place
PopRemaining_DropLast(remaining) == SubSeq(remaining, 1, Len(remaining) - 1)

\* remaining[0] = remaining[len-1]; remaining = remaining[:len-1]
PopRemaining(remaining) ==
    IF Len(remaining) = 1 THEN <<>>
    ELSE <<remaining[Len(remaining)]>> \o SubSeq(remaining, 2, Len(remaining) - 1)

\* a slip: the visited set is never consulted
AlreadyDone_Never(done, name) == FALSE

\* done.Has(next.Name.Name)
AlreadyDone(done, name) == name \in done

\* result after the GenClient and GenDeepCopy marks (parser.go:598-606)
MarkStruct(u, next, s) ==
    LET s1 == IF GenClient(u, next) THEN [s EXCEPT !.GenClient = TRUE, !.GenDeepCopy = TRUE]
              ELSE s
    IN IF GenDeepCopy(u, next) THEN [s1 EXCEPT !.GenDeepCopy = TRUE] ELSE s1

(***************************************************************************)
(* Map iteration: Go visits the keys of a map in no fixed order            *)
(***************************************************************************)
\* the sequences that list every element of S once
PermSeqs(S) ==
    {p \in [1..Cardinality(S) -> S] : \A i, j \in 1..Cardinality(S) : p[i] = p[j] => i = j}

\* the values of a map, in every order of its keys
InnerSeqs(m) == {[i \in 1..Len(p) |-> m[p[i]]] : p \in PermSeqs(DOMAIN m)}

\* one sequence of each set of the list, concatenated
RECURSIVE Concats(_)
Concats(sets) ==
    IF sets = <<>> THEN {<<>>}
    ELSE {x \o y : x \in Head(sets), y \in Concats(Tail(sets))}

\* the values of a two-level map as a nested range loop can visit them
RangeSeqs2(m) ==
    UNION {Concats([i \in 1..Len(p) |-> InnerSeqs(m[p[i]])]) : p \in PermSeqs(DOMAIN m)}

Last(s) == s[Len(s)]

(***************************************************************************)
(* ParseAPIs                                                               *)
(***************************************************************************)
IsAlnum(ch) ==
    ch \in {"a","b","c","d","e","f","g","h","i","j","k","l","m","n","o","p","q","r","s",
            "t","u","v","w","x","y","z","A","B","C","D","E","F","G","H","I","J","K","L",
            "M","N","O","P","Q","R","S","T","U","V","W","X","Y","Z","0","1","2","3","4",
            "5","6","7","8","9","_"}

Lower == <<"a","b","c","d","e","f","g","h","i","j","k","l","m","n","o","p","q","r","s","t","u","v","w","x","y","z">>
Upper == <<"A","B","C","D","E","F","G","H","I","J","K","L","M","N","O","P","Q","R","S","T","U","V","W","X","Y","Z">>

ToUpper(ch) ==
    IF \E i \in DOMAIN Lower : Lower[i] = ch
    THEN Upper[CHOOSE i \in DOMAIN Lower : Lower[i] = ch]
    ELSE ch

\* strings.Title: the first letter of every word in upper case
Title(s) == [i \in DOMAIN s |-> IF i = 1 \/ ~IsAlnum(s[i - 1]) THEN ToUpper(s[i]) ELSE s[i]]

\* a slip: the copy leaves out the subresources
CopyResource_NoSubresources(resource) == [resource EXCEPT !.Subresources = EmptyMap]

\* apiResource := &APIResource{...} (parser.go:230-242)
CopyResource(resource) ==
    [Domain |-> resource.Domain, Version |-> resource.Version, Group |-> resource.Group,
     Resource |-> resource.Resource, Type |-> resource.Type, REST |-> resource.REST,
     Kind |-> resource.Kind, Subresources |-> resource.Subresources,
     StatusStrategy |-> resource.StatusStrategy, Strategy |-> resource.Strategy,
     NonNamespaced |-> resource.NonNamespaced]

\* &APIs{Domain, Package, Groups} (parser.go:207-211)
NewAPIs(bb) ==
    [Domain |-> bb.Domain, Package |-> bb.APIsPkg, Groups |-> EmptyMap, Pkg |-> Nil]

\* the group assembled from versionMap (parser.go:214-254), its versions visited
\* in the order vo and the kinds of version v in the order ko[v]; a version
\* package's parent that the universe does not hold is a nil dereference
NewAPIGroup(u, bb, group, vo, ko) ==
    LET versionMap == bb.ByGroupVersionKind[group]
        pkgOf(v, k) == u.Types[versionMap[v][k].Type].Name.Package
        kinds == UNION {DOMAIN versionMap[v] : v \in DOMAIN versionMap}
        lastWith(k) == vo[Max({i \in DOMAIN vo : k \in DOMAIN versionMap[vo[i]]})]
        pkg == UniversePkg(u, Dir(pkgOf(Last(vo), Last(ko[Last(vo)]))))
    IN IF \E v \in DOMAIN versionMap : \E k \in DOMAIN versionMap[v] :
            UniversePkg(u, Dir(pkgOf(v, k))) = Nil
       THEN [err |-> [kind |-> "NilPointer", group |-> group], apiGroup |-> Nil]
       ELSE [err |-> NoErr,
             apiGroup |->
               [Group |-> group, GroupTitle |-> Title(group), Domain |-> bb.Domain,
                Package |-> EmptyString,
                Versions |->
                  [v \in DOMAIN versionMap |->
                     [Domain |-> bb.Domain, Group |-> group, Version |-> v,
                      Resources |-> [k \in DOMAIN versionMap[v] |->
                                       CopyResource(versionMap[v][k])],
                      Pkg |-> UniversePkg(u, pkgOf(v, Last(ko[v])))]],
                UnversionedResources |->
                  [k \in kinds |-> CopyResource(versionMap[lastWith(k)][k])],
                Structs |-> <<>>,
                Pkg |-> pkg,
                PkgPath |-> pkg.Path]]

\* the orders in which NewAPIGroup can visit the kinds of each version
KindOrders(versionMap) ==
    {ko \in [DOMAIN versionMap -> UNION {PermSeqs(DOMAIN versionMap[v]) : v \in DOMAIN versionMap}] :
        \A v \in DOMAIN versionMap : ko[v] \in PermSeqs(DOMAIN versionMap[v])}

\* the work-lists ParseStructs can start from (parser.go:570-580): the type of
\* every resource of the group, then every subresource type indexed for it
SeedLists(bb, apigroup) ==
    LET resourceTypes == [v \in DOMAIN apigroup.Versions |->
                            [k \in DOMAIN apigroup.Versions[v].Resources |->
                               apigroup.Versions[v].Resources[k].Type]]
        subTypes == IF apigroup.Group \in DOMAIN bb.SubByGroupVersionKind
                    THEN bb.SubByGroupVersionKind[apigroup.Group]
                    ELSE EmptyMap
    IN {x \o y : x \in RangeSeqs2(resourceTypes), y \in RangeSeqs2(subTypes)}

(***************************************************************************)
(* Spec: NewAPIsBuilder run over a drawn universe                          *)
(***************************************************************************)
v_Status == <<"S","t","a","t","u","s">>
v_Peer == <<"P","e","e","r">>
v_Name == <<"N","a","m","e">>
v_meta == <<"m","e","t","a">>
v_ptrJ == <<"*","r","/","h","/","v","1",".","J">>

\* the declarations a universe is drawn from; 1..9 and 11 can be in the order,
\* 10 and 12..14 are only referenced as member types
PoolTypes ==
    <<
      \* 1: resource g/v1/K, default strategy, one subresource
      [TypeDecl(p_rgv1, v_K, v_g, v_v1) EXCEPT
          !.IsAPIResource = TRUE, !.HasSubresource = TRUE,
          !.ResourceTag = TagOf(<< <<s_path, v_ks>> >>),
          !.SubresourceTags =
             <<TagOf(<< <<s_request, v_Q>>, <<s_path, v_ks_scale>>, <<s_rest, v_R>> >>)>>,
          !.Members = <<Member(v_Status, FALSE, 10), Member(n_ObjectMeta, TRUE, 12),
                        Member(v_Name, FALSE, 13)>>],
      \* 2: resource g/v1/K again, explicit strategy without the suffix
      [TypeDecl(p_rgv1, v_K, v_g, v_v1) EXCEPT
          !.IsAPIResource = TRUE, !.IsNonNamespaced = TRUE,
          !.ResourceTag = TagOf(<< <<s_strategy, v_g_KS>>, <<s_path, v_kz>> >>)],
      \* 3: resource g/v2/K, explicit strategy with the suffix
      [TypeDecl(p_rgv2, v_K, v_g, v_v2) EXCEPT
          !.IsAPIResource = TRUE,
          !.ResourceTag = TagOf(<< <<s_rest, v_R>>, <<s_strategy, v_MyStrategy>> >>),
          !.Members = <<Member(v_Peer, FALSE, 14)>>],
      \* 4: resource h/v1/J with a malformed tag
      [TypeDecl(p_rhv1, v_J, v_h, v_v1) EXCEPT
          !.IsAPIResource = TRUE, !.ResourceTag = TagOf(<< <<v_bad>> >>)],
      \* 5: resource h/v1/J without its tag
      [TypeDecl(p_rhv1, v_J, v_h, v_v1) EXCEPT !.IsAPIResource = TRUE],
      \* 6: resource under another apis directory
      [TypeDecl(p_qgv1, v_K, v_g, v_v1) EXCEPT
          !.IsAPIResource = TRUE, !.ResourceTag = TagOf(<< <<s_path, v_ks>> >>)],
      \* 7: controller
      [TypeDecl(p_ctl, v_c, v_c, v_c) EXCEPT
          !.IsController = TRUE,
          !.ControllerTag = TagOf(<< <<s_group, v_g>>, <<s_version, v_v1>>,
                                     <<s_kind, v_K>>, <<s_resource, v_ks>> >>)],
      \* 8: controller with a malformed tag
      [TypeDecl(p_ctl, v_b, v_c, v_c) EXCEPT
          !.IsController = TRUE, !.ControllerTag = TagOf(<< <<s_kind>> >>)],
      \* 9: resource h/v1/J, two subresources on one path
      [TypeDecl(p_rhv1, v_J, v_h, v_v1) EXCEPT
          !.IsAPIResource = TRUE, !.HasSubresource = TRUE,
          !.ResourceTag = TagOf(<< <<s_path, v_js>> >>),
          !.SubresourceTags = <<TagOf(<< <<s_path, v_js_scale>> >>),
                                TagOf(<< <<s_path, v_scale>>, <<s_rest, v_R>> >>)>>],
      \* 10: struct g/v1/KS
      TypeDecl(p_rgv1, v_KS, v_g, v_v1),
      \* 11: subresource request type g/v1/Q
      [TypeDecl(p_rgv1, v_Q, v_g, v_v1) EXCEPT
          !.IsAPISubresource = TRUE, !.SubresourceRequest = TRUE,
          !.Members = <<Member(v_Name, FALSE, 13)>>],
      \* 12: metav1.ObjectMeta
      TypeDecl(s_metav1_pkg, n_ObjectMeta, v_meta, v_v1),
      \* 13: string
      [TypeDecl(EmptyString, v_string, s_dot, s_dot) EXCEPT !.IsPrimitive = TRUE],
      \* 14: *r/h/v1.J
      [TypeDecl(EmptyString, v_ptrJ, s_dot, s_dot) EXCEPT !.Elem = 9]
    >>

OrderPool == {1, 2, 3, 4, 5, 6, 7, 8, 9, 11}

Orders == {o \in SeqsUpTo(OrderPool, MaxOrder) : \A i, j \in DOMAIN o : o[i] = o[j] => i = j}

AllPkgs == {p_r, p_rg, p_rh, p_rgv1, p_rgv2, p_rhv1, p_ctl, s_metav1_pkg}

\* what the universe holds: everything; no +domain comment; no apis package;
\* no package for group g
Layouts ==
    { [Pkgs |-> AllPkgs, Domain |-> v_d],
      [Pkgs |-> AllPkgs, Domain |-> EmptyString],
      [Pkgs |-> AllPkgs \ {p_r}, Domain |-> v_d],
      [Pkgs |-> AllPkgs \ {p_rg}, Domain |-> v_d] }

NoLocals ==
    [i |-> 0, apis |-> Nil, apiGroup |-> Nil, remaining |-> <<>>, done |-> {}, groups |-> {}]

NoHistory == [parseAPIs |-> FALSE, doType |-> <<>>]

Init ==
    /\ \E o \in Orders : \E l \in Layouts :
         universe = [Types |-> PoolTypes, Order |-> o, Pkgs |-> l.Pkgs, Domain |-> l.Domain]
    /\ b = NewBuilder
    /\ pc = "ParsePackages"
    /\ loc = NoLocals
    /\ err = NoErr
    /\ hist = NoHistory
    /\ input = Null
    /\ output = Null

\* a slip: the error is reported and the run goes on
AfterCall_GoOn(e, next) == next

\* log.Fatalf and panic end the run; otherwise the caller goes on
AfterCall(e, next) == IF e = NoErr THEN next ELSE "fatal"

Raised(e) == IF e = NoErr THEN err ELSE e

ParsePackages ==
    /\ pc = "ParsePackages"
    /\ LET res == ParsePackagesFrom(universe, b, 1)
       IN /\ b' = res.b
          /\ err' = Raised(res.err)
          /\ pc' = AfterCall(res.err, "ParseDomain")
    /\ UNCHANGED <<universe, loc, hist, input, output>>

ParseDomain ==
    /\ pc = "ParseDomain"
    /\ LET res == ParseDomainOf(universe, b)
       IN /\ b' = res.b
          /\ err' = Raised(res.err)
          /\ pc' = AfterCall(res.err, "ParseGroupNames")
    /\ UNCHANGED <<universe, loc, hist, input, output>>

ParseGroupNames ==
    /\ pc = "ParseGroupNames"
    /\ b' = ParseGroupNamesOf(universe, b)
    /\ pc' = "ParseIndex"
    /\ UNCHANGED <<universe, loc, err, hist, input, output>>

ParseIndexStart ==
    /\ pc = "ParseIndex"
    /\ b' = ParseIndexInit(b)
    /\ loc' = [loc EXCEPT !.i = 1]
    /\ pc' = "ParseIndex.range"
    /\ UNCHANGED <<universe, err, hist, input, output>>

ParseIndexStep ==
    /\ pc = "ParseIndex.range"
    /\ loc.i <= Len(universe.Order)
    /\ LET res == IndexDecl(universe, b, universe.Order[loc.i])
       IN /\ b' = res.b
          /\ err' = Raised(res.err)
          /\ pc' = AfterCall(res.err, "ParseIndex.range")
    /\ loc' = [loc EXCEPT !.i = @ + 1]
    /\ UNCHANGED <<universe, hist, input, output>>

ParseIndexEnd ==
    /\ pc = "ParseIndex.range"
    /\ loc.i > Len(universe.Order)
    /\ pc' = "ParseControllers"
    /\ UNCHANGED <<universe, b, loc, err, hist, input, output>>

ParseControllers ==
    /\ pc = "ParseControllers"
    /\ LET res == ParseControllersFrom(universe, b, 1)
       IN /\ b' = res.b
          /\ err' = Raised(res.err)
          /\ pc' = AfterCall(res.err, "ParseAPIs")
    /\ UNCHANGED <<universe, loc, hist, input, output>>

ParseAPIsStart ==
    /\ pc = "ParseAPIs"
    /\ loc' = [loc EXCEPT !.apis = NewAPIs(b), !.groups = {}]
    /\ hist' = [hist EXCEPT !.parseAPIs = TRUE]
    /\ pc' = "ParseAPIs.range"
    /\ UNCHANGED <<universe, b, err, input, output>>

\* one round of the loop over b.ByGroupVersionKind, up to the work-list of
\* ParseStructs
ParseAPIsGroup ==
    /\ pc = "ParseAPIs.range"
    /\ \E group \in (DOMAIN b.ByGroupVersionKind) \ loc.groups :
         \E vo \in PermSeqs(DOMAIN b.ByGroupVersionKind[group]) :
           \E ko \in KindOrders(b.ByGroupVersionKind[group]) :
             LET res == NewAPIGroup(universe, b, group, vo, ko)
             IN /\ err' = Raised(res.err)
                /\ pc' = AfterCall(res.err, "ParseStructs")
                /\ \E seeds \in (IF res.err = NoErr THEN SeedLists(b, res.apiGroup)
                                 ELSE {<<>>}) :
                     loc' = [loc EXCEPT !.apiGroup = res.apiGroup,
                                        !.remaining = seeds,
                                        !.done = {},
                                        !.groups = @ \cup {group}]
    /\ UNCHANGED <<universe, b, hist, input, output>>

\* one round of the work-list loop of ParseStructs
ParseStructsStep ==
    /\ pc = "ParseStructs"
    /\ Len(loc.remaining) > 0
    /\ LET next == loc.remaining[1]
           rest == PopRemaining(loc.remaining)
           name == universe.Types[next].Name.Name
       IN IF AlreadyDone(loc.done, name)
          THEN /\ loc' = [loc EXCEPT !.remaining = rest]
               /\ hist' = hist
          ELSE \E res \in {DoType(universe, next)} :
                 /\ loc' = [loc EXCEPT !.remaining = rest \o res.remaining,
                                       !.done = @ \cup {name},
                                       !.apiGroup.Structs =
                                          Append(@, MarkStruct(universe, next, res.s))]
                 /\ hist' = [hist EXCEPT !.doType =
                               Append(@, [group |-> loc.apiGroup.Group, type |-> next])]
    /\ UNCHANGED <<pc, universe, b, err, input, output>>

\* ParseStructs returns; apis.Groups[group] = apiGroup
ParseStructsReturn ==
    /\ pc = "ParseStructs"
    /\ Len(loc.remaining) = 0
    /\ loc' = [loc EXCEPT !.apis.Groups = MapPut(@, loc.apiGroup.Group, loc.apiGroup)]
    /\ pc' = "ParseAPIs.range"
    /\ UNCHANGED <<universe, b, err, hist, input, output>>

\* apis.Pkg = b.context.Universe[b.APIsPkg]; b.APIs = apis
ParseAPIsEnd ==
    /\ pc = "ParseAPIs.range"
    /\ loc.groups = DOMAIN b.ByGroupVersionKind
    /\ b' = [b EXCEPT !.APIs = [loc.apis EXCEPT !.Pkg = UniversePkg(universe, b.APIsPkg)]]
    /\ pc' = "done"
    /\ UNCHANGED <<universe, loc, err, hist, input, output>>

Next ==
    \/ ParsePackages
    \/ ParseDomain
    \/ ParseGroupNames
    \/ ParseIndexStart
    \/ ParseIndexStep
    \/ ParseIndexEnd
    \/ ParseControllers
    \/ ParseAPIsStart
    \/ ParseAPIsGroup
    \/ ParseStructsStep
    \/ ParseStructsReturn
    \/ ParseAPIsEnd

Spec == Init /\ [][Next]_vars

(***************************************************************************)
(* Properties of the run                                                   *)
(***************************************************************************)
\* the key triples of a three-level map
Keys3(m) ==
    UNION {UNION {{<<k1, k2, k3>> : k3 \in DOMAIN m[k1][k2]} : k2 \in DOMAIN m[k1]} :
           k1 \in DOMAIN m}

\* every resource either index holds
Indexed(bb) ==
    {bb.ByGroupVersionKind[t[1]][t[2]][t[3]] : t \in Keys3(bb.ByGroupVersionKind)}
    \cup {bb.ByGroupKindVersion[t[1]][t[2]][t[3]] : t \in Keys3(bb.ByGroupKindVersion)}

s_strategy_eq == <<"s","t","r","a","t","e","g","y","=">>

\* some element of the raw tag is "strategy=" followed by a value
StrategyGiven(tag) ==
    \E i \in 1..(Len(tag) - Len(s_strategy_eq)) :
      /\ i = 1 \/ tag[i - 1] = ","
      /\ SubSeq(tag, i, i + Len(s_strategy_eq) - 1) = s_strategy_eq
      /\ tag[i + Len(s_strategy_eq)] # ","

EndsWithStrategy(s) == \E p \in {SubSeq(s, 1, n) : n \in 0..Len(s)} : s = p \o s_Strategy

\* s without its trailing "Strategy", s itself when it has none
Stem(s) ==
    IF EndsWithStrategy(s)
    THEN CHOOSE p \in {SubSeq(s, 1, n) : n \in 0..Len(s)} : s = p \o s_Strategy
    ELSE s

DefaultedStrategy(r) ==
    ~StrategyGiven(universe.Types[r.Type].ResourceTag) =>
       r.Strategy = GetGroup(universe, r.Type) \o <<".">> \o GetKind(universe, r.Type)
                    \o s_Strategy

\* C1 as stated: an indexed resource whose tag gives no strategy has the
\* strategy "<group>.<Kind>Strategy", and in every case its StatusStrategy is
\* its Strategy with the trailing "Strategy" replaced by "StatusStrategy".
C1_SuffixReplaced ==
    \A r \in Indexed(b) :
      /\ DefaultedStrategy(r)
      /\ r.StatusStrategy
           = (IF EndsWithStrategy(r.Strategy) THEN Stem(r.Strategy) \o s_StatusStrategy
              ELSE r.Strategy)

\* C1 amended: an indexed resource whose tag gives no strategy has the strategy
\* "<group>.<Kind>Strategy", and in every case its StatusStrategy is its
\* Strategy, without one trailing "Strategy" when it has one, followed by
\* "StatusStrategy".
C1_StemPlusStatusStrategy ==
    \A r \in Indexed(b) :
      /\ DefaultedStrategy(r)
      /\ r.StatusStrategy = Stem(r.Strategy) \o s_StatusStrategy

\* the resource of declaration 1 (no strategy in its tag) has been indexed
C1_Witness ==
    /\ v_g \in DOMAIN b.ByGroupVersionKind
    /\ v_v1 \in DOMAIN b.ByGroupVersionKind[v_g]
    /\ v_K \in DOMAIN b.ByGroupVersionKind[v_g][v_v1]
    /\ b.ByGroupVersionKind[v_g][v_v1][v_K].Type = 1
    /\ b.ByGroupVersionKind[v_g][v_v1][v_K].Strategy
         = <<"g",".","K","S","t","r","a","t","e","g","y">>
    /\ b.ByGroupVersionKind[v_g][v_v1][v_K].StatusStrategy
         = <<"g",".","K","S","t","a","t","u","s","S","t","r","a","t","e","g","y">>

\* ParseIndex has returned
IndexComplete ==
    \/ pc = "ParseIndex.range" /\ loc.i > Len(universe.Order)
    \/ pc \in {"ParseControllers", "ParseAPIs", "ParseAPIs.range", "ParseStructs", "done"}

IndexContent(bb) ==
    [ByGroupVersionKind |-> bb.ByGroupVersionKind,
     ByGroupKindVersion |-> bb.ByGroupKindVersion]

\* ParseIndex run by this builder over the declarations in another order
ParseIndexOver(order) == ParseIndexFrom(universe, order, ParseIndexInit(b), 1)

SameForEveryOrder ==
    \A f \in Perms(Len(universe.Order)) :
      LET run == ParseIndexOver(Permute(universe.Order, f))
      IN /\ run.err = NoErr
         /\ IndexContent(run.b) = IndexContent(b)

\* two resource declarations of the order have one (group, version, kind)
RepeatedTriple ==
    \E i, j \in DOMAIN universe.Order :
      /\ i # j
      /\ IsAPIResource(universe, universe.Order[i])
      /\ IsAPIResource(universe, universe.Order[j])
      /\ GetGroup(universe, universe.Order[i]) = GetGroup(universe, universe.Order[j])
      /\ GetVersion(universe, universe.Order[i]) = GetVersion(universe, universe.Order[j])
      /\ GetKind(universe, universe.Order[i]) = GetKind(universe, universe.Order[j])

\* C7 as stated: the content of both indices after ParseIndex is the same for
\* every order in which the declarations are visited.
C7_AnyUniverse == IndexComplete => SameForEveryOrder

\* C7 amended: the content of both indices after ParseIndex is the same for
\* every order in which the declarations are visited, provided no two resource
\* declarations have the same (group, version, kind); of declarations that do,
\* the one visited last stays in the indices.
C7_DistinctTriples == (IndexComplete /\ ~RepeatedTriple) => SameForEveryOrder

\* two resources of one group, g/v1/K and g/v2/K, have been indexed
C7_Witness ==
    /\ IndexComplete
    /\ universe.Order = <<3, 11, 1>>
    /\ DOMAIN b.ByGroupVersionKind[v_g] = {v_v1, v_v2}
    /\ DOMAIN b.ByGroupKindVersion[v_g][v_K] = {v_v1, v_v2}

\* C8: once a fatal error has been raised the run is over: it is at no step of
\* NewAPIsBuilder, nothing more can happen, and b.APIs was never set; after a
\* duplicate subresource path ParseAPIs has not even started.
C8_NoModelAfterError ==
    err # NoErr =>
      /\ pc = "fatal"
      /\ ~ENABLED Next
      /\ b.APIs = Nil
      /\ err.kind = "DuplicateSubresource" => ~hist.parseAPIs

\* the run has ended on the duplicate subresource path of declaration 9
C8_Witness ==
    /\ err # NoErr
    /\ err.kind = "DuplicateSubresource"
    /\ err.path = v_scale
    /\ pc = "fatal"
    /\ \E i \in DOMAIN universe.Order : universe.Order[i] = 9

(***************************************************************************)
(* SpecStructs: NewAPIsBuilder run over a drawn type graph                 *)
(***************************************************************************)
v_Phase == <<"P","h","a","s","e">>

\* the member lists drawn for a type: fields of the types in targets
MemberLists(names, targets) ==
    {<<>>} \cup {[i \in DOMAIN ts |-> Member(names[ts[i]], FALSE, ts[i])] :
                   ts \in SeqsUpTo(targets, MaxMembers)}

StructNames == <<v_K, v_KS, v_K, v_J, v_Phase, v_Peer, v_Q, v_S>>

\* the declarations of a type graph; m1 and m2 are the members of 1 and 2
StructTypes(m1, m2) ==
    <<
      \* 1: resource g/v1/K
      [TypeDecl(p_rgv1, v_K, v_g, v_v1) EXCEPT
          !.IsAPIResource = TRUE,
          !.ResourceTag = TagOf(<< <<s_path, v_ks>> >>),
          !.Members = m1],
      \* 2: struct g/v1/KS
      [TypeDecl(p_rgv1, v_KS, v_g, v_v1) EXCEPT !.Members = m2],
      \* 3: resource g/v2/K, the bare name of 1
      [TypeDecl(p_rgv2, v_K, v_g, v_v2) EXCEPT
          !.IsAPIResource = TRUE,
          !.ResourceTag = TagOf(<< <<s_rest, v_R>>, <<s_strategy, v_MyStrategy>> >>),
          !.Members = <<Member(v_Peer, FALSE, 6)>>],
      \* 4: resource h/v1/J with a field of group g
      [TypeDecl(p_rhv1, v_J, v_h, v_v1) EXCEPT
          !.IsAPIResource = TRUE,
          !.ResourceTag = TagOf(<< <<s_path, v_js>> >>),
          !.Members = <<Member(v_KS, FALSE, 2)>>],
      \* 5: g/v1/Phase, an alias of a builtin
      [TypeDecl(p_rgv1, v_Phase, v_g, v_v1) EXCEPT !.IsPrimitive = TRUE],
      \* 6: struct g/v2/Peer
      TypeDecl(p_rgv2, v_Peer, v_g, v_v2),
      \* 7: subresource request type g/v1/Q
      [TypeDecl(p_rgv1, v_Q, v_g, v_v1) EXCEPT
          !.IsAPISubresource = TRUE, !.SubresourceRequest = TRUE,
          !.Members = <<Member(v_KS, TRUE, 2), Member(v_Phase, FALSE, 5)>>],
      \* 8: resource g/v1/S
      [TypeDecl(p_rgv1, v_S, v_g, v_v1) EXCEPT
          !.IsAPIResource = TRUE,
          !.ResourceTag = TagOf(<< <<s_path, v_w>> >>),
          !.Members = <<Member(v_Peer, FALSE, 6)>>]
    >>

StructOrders == {<<3, 1>>, <<1, 4>>, <<7, 1>>, <<8, 1>>}

InitStructs ==
    /\ \E o \in StructOrders :
         \E m1 \in MemberLists(StructNames, {1, 2, 3}) :
           \E m2 \in MemberLists(StructNames, {1, 4}) :
             universe = [Types |-> StructTypes(m1, m2), Order |-> o,
                         Pkgs |-> AllPkgs, Domain |-> v_d]
    /\ b = NewBuilder
    /\ pc = "ParsePackages"
    /\ loc = NoLocals
    /\ err = NoErr
    /\ hist = NoHistory
    /\ input = Null
    /\ output = Null

SpecStructs == InitStructs /\ [][Next]_vars

\* the program is one thread: a loop that can go round does go round
FairSpecStructs == SpecStructs /\ WF_vars(ParseStructsStep)

(***************************************************************************)
(* Properties of the struct graph builder                                  *)
(***************************************************************************)
BareName(t) == universe.Types[t].Name.Name

\* the types DoType was called on for a group, in call order
Flattened(group) ==
    LET calls == SelectSeq(hist.doType, LAMBDA r : r.group = group)
    IN [i \in DOMAIN calls |-> calls[i].type]

DistinctNames(ts) == \A i, j \in DOMAIN ts : BareName(ts[i]) = BareName(ts[j]) => i = j

DistinctStructs(structs) ==
    \A i, j \in DOMAIN structs : structs[i].Name = structs[j].Name => i = j

InStructs == pc = "ParseStructs"

ParseStructsOver == InStructs /\ loc.remaining = <<>>

\* C5: while and after a group is flattened, no two DoType calls of the group
\* were for one bare name, and no two of its structs carry one Name
C5_EachNameOnce ==
    /\ \A r \in {hist.doType[i] : i \in DOMAIN hist.doType} :
         DistinctNames(Flattened(r.group))
    /\ InStructs => DistinctStructs(loc.apiGroup.Structs)
    /\ loc.apis # Nil =>
         \A g \in DOMAIN loc.apis.Groups : DistinctStructs(loc.apis.Groups[g].Structs)

\* KS is the type of two fields of K and K the type of a field of KS; the
\* work-list is empty after one struct for each
C5_Witness ==
    /\ ParseStructsOver
    /\ universe.Order = <<1, 4>>
    /\ loc.apiGroup.Group = v_g
    /\ [i \in DOMAIN universe.Types[1].Members |-> universe.Types[1].Members[i].Type]
         = <<2, 2>>
    /\ [i \in DOMAIN universe.Types[2].Members |-> universe.Types[2].Members[i].Type]
         = <<1>>
    /\ Flattened(v_g) = <<1, 2>>
    /\ Len(loc.apiGroup.Structs) = 2

\* the seeds of a group: the type of each of its resources, and each
\* subresource type indexed for it
Seeds(group) ==
    {b.ByGroupVersionKind[t[1]][t[2]][t[3]].Type :
        t \in {x \in Keys3(b.ByGroupVersionKind) : x[1] = group}}
    \cup {b.SubByGroupVersionKind[t[1]][t[2]][t[3]] :
        t \in {x \in Keys3(b.SubByGroupVersionKind) : x[1] = group}}

\* the member types of t that are not primitive and are of the group of t
SameGroupMembers(t) ==
    {universe.Types[t].Members[i].Type : i \in DOMAIN universe.Types[t].Members}
    \cap {m \in DOMAIN universe.Types :
            /\ ~universe.Types[m].IsPrimitive
            /\ universe.Types[m].Group = universe.Types[t].Group}

\* the least set of types that holds ts and the same-group members of its types
RECURSIVE Closure(_)
Closure(ts) ==
    LET more == ts \cup UNION {SameGroupMembers(t) : t \in ts}
    IN IF more = ts THEN ts ELSE Closure(more)

Reach(group) == Closure(Seeds(group))

StructNamesOf(structs) == {structs[i].Name : i \in DOMAIN structs}

\* the structs are those of the DoType calls of the group, in call order
StructPerCall(group, structs) ==
    /\ Len(structs) = Len(Flattened(group))
    /\ \A i \in DOMAIN structs : structs[i].Name = BareName(Flattened(group)[i])

\* no DoType call of the group was for a type out of reach of its seeds
OnlyReached(group) ==
    \A i \in DOMAIN Flattened(group) : Flattened(group)[i] \in Reach(group)

NoSharedName(ts) == \A t1, t2 \in ts : BareName(t1) = BareName(t2) => t1 = t2

\* C10 as stated: when ParseStructs is over for a group, every reachable type
\* has a struct with its bare name, and every struct is of a reachable type
C10_ExactlyReachable ==
    ParseStructsOver =>
      LET group == loc.apiGroup.Group
      IN /\ StructPerCall(group, loc.apiGroup.Structs)
         /\ OnlyReached(group)
         /\ \A t \in Reach(group) : BareName(t) \in StructNamesOf(loc.apiGroup.Structs)

\* C10: when ParseStructs is over for a group, every struct is of a type
\* reachable from the seeds, one struct per call of DoType; the names of the
\* structs are names of reachable types; and when no two reachable types share
\* a bare name, the flattened types are exactly the reachable ones
C10_ReachableByName ==
    ParseStructsOver =>
      LET group == loc.apiGroup.Group
      IN /\ StructPerCall(group, loc.apiGroup.Structs)
         /\ OnlyReached(group)
         /\ NoSharedName(Reach(group)) =>
              {Flattened(group)[i] : i \in DOMAIN Flattened(group)} = Reach(group)

\* group g with K, KS and Q in reach and, out of reach, h/v1/J and the alias
\* Phase: K has a field of KS, KS a field of J, Q fields of KS and Phase; the
\* structs are K, KS and Q
C10_Witness ==
    /\ ParseStructsOver
    /\ universe.Order = <<7, 1>>
    /\ loc.apiGroup.Group = v_g
    /\ [i \in DOMAIN universe.Types[1].Members |-> universe.Types[1].Members[i].Type]
         = <<2>>
    /\ [i \in DOMAIN universe.Types[2].Members |-> universe.Types[2].Members[i].Type]
         = <<4>>
    /\ Reach(v_g) = {1, 2, 7}
    /\ NoSharedName(Reach(v_g))
    /\ StructNamesOf(loc.apiGroup.Structs) = {v_K, v_KS, v_Q}

\* C9: the work-list of ParseStructs gets empty, and DoType is called for a
\* group at most once for each bare name of a type in reach of its seeds
C9_Terminates ==
    /\ [](InStructs =>
            Len(Flattened(loc.apiGroup.Group))
              <= Cardinality({BareName(t) : t \in Reach(loc.apiGroup.Group)}))
    /\ (InStructs ~> ParseStructsOver)

\* K has a field of its own type and one of KS, KS a field of K; the work-list
\* is empty after the two calls of DoType
C9_Witness ==
    /\ ParseStructsOver
    /\ [i \in DOMAIN universe.Types[1].Members |-> universe.Types[1].Members[i].Type]
         = <<1, 2>>
    /\ [i \in DOMAIN universe.Types[2].Members |-> universe.Types[2].Members[i].Type]
         = <<1, 1>>
    /\ Len(Flattened(v_g)) = 2

(***************************************************************************)
(* The struct set and the order of the work-list                           *)
(***************************************************************************)
\* the Structs the loop of ParseStructs ends with (parser.go:583-611), from a
\* work-list, a visited set and the structs appended so far
RECURSIVE StructsFrom(_, _, _, _)
StructsFrom(u, remaining, done, structs) ==
    IF Len(remaining) = 0 THEN structs
    ELSE LET next == remaining[1]
             rest == PopRemaining(remaining)
             name == u.Types[next].Name.Name
         IN IF AlreadyDone(done, name)
            THEN StructsFrom(u, rest, done, structs)
            ELSE CHOOSE r \in {StructsFrom(u, rest \o res.remaining, done \cup {name},
                                          Append(structs, MarkStruct(u, next, res.s))) :
                                 res \in {DoType(u, next)}} : TRUE

\* a struct without its place in the list: its name, marks and fields, the
\* fields without their order
StructContent(s) ==
    [Name |-> s.Name, GenClient |-> s.GenClient, GenDeepCopy |-> s.GenDeepCopy,
     GenUnversioned |-> s.GenUnversioned,
     Fields |-> {s.Fields[i] : i \in DOMAIN s.Fields}]

StructSet(structs) == {StructContent(structs[i]) : i \in DOMAIN structs}

\* the struct set of the group is the one every order of its seeds ends with
SameForEverySeedOrder ==
    \A seeds \in SeedLists(b, loc.apiGroup) :
      StructSet(StructsFrom(universe, seeds, {}, <<>>)) = StructSet(loc.apiGroup.Structs)

\* C11 as stated: when ParseStructs is over for a group, the set of its structs
\* is the one that every order of the seeds, and so of the pops, ends with
C11_AnyGraph == ParseStructsOver => SameForEverySeedOrder

\* C11: when ParseStructs is over for a group and no two types in reach of its
\* seeds share a bare name, the set of its structs is the one that every order
\* of the seeds, and so of the pops, ends with
C11_DistinctNames ==
    (ParseStructsOver /\ NoSharedName(Reach(loc.apiGroup.Group))) => SameForEverySeedOrder

\* group g with the resources K and S: the seeds come in two orders and the
\* structs of K, KS, S and Peer in different list orders
C11_Witness ==
    /\ ParseStructsOver
    /\ universe.Order = <<8, 1>>
    /\ loc.apiGroup.Group = v_g
    /\ [i \in DOMAIN universe.Types[1].Members |-> universe.Types[1].Members[i].Type]
         = <<2>>
    /\ SeedLists(b, loc.apiGroup) = {<<1, 8>>, <<8, 1>>}
    /\ NoSharedName(Reach(v_g))
    /\ StructNamesOf(loc.apiGroup.Structs) = {v_K, v_KS, v_S, v_Peer}
    /\ \E seeds \in SeedLists(b, loc.apiGroup) :
         StructsFrom(universe, seeds, {}, <<>>) # loc.apiGroup.Structs

(***************************************************************************)
(* The two resource indices                                                *)
(***************************************************************************)
\* the places of the order that hold a resource declaration of (g, v, k)
PlacesOf(g, v, k) ==
    {i \in DOMAIN universe.Order :
        /\ universe.Types[universe.Order[i]].IsAPIResource
        /\ universe.Types[universe.Order[i]].Group = g
        /\ universe.Types[universe.Order[i]].Version = v
        /\ universe.Types[universe.Order[i]].Kind = k}

\* the triples of the resource declarations of the order
TriplesOfOrder ==
    {<<universe.Types[c].Group, universe.Types[c].Version, universe.Types[c].Kind>> :
        c \in {universe.Order[i] : i \in {j \in DOMAIN universe.Order :
                                           universe.Types[universe.Order[j]].IsAPIResource}}}

\* the declaration of (g, v, k) that the order visits last
LastDeclared(g, v, k) == universe.Order[Max(PlacesOf(g, v, k))]

\* the run ended on an error inside ParseIndex
FatalInParseIndex ==
    /\ pc = "fatal"
    /\ loc.i >= 2
    /\ ~hist.parseAPIs
    /\ "directive" \in DOMAIN err => err.directive # "controller"

\* C12: after ParseIndex, ByGroupVersionKind[g][v][k] is there exactly when
\* ByGroupKindVersion[g][k][v] is, for exactly the triples of the resource
\* declarations; both hold one resource, built from the declaration of the
\* triple that was visited last; and an error that ends ParseIndex is the
\* error of the declaration alone, whatever was indexed before it
C12_LastWriteWins ==
    /\ IndexComplete =>
         /\ Keys3(b.ByGroupVersionKind) = TriplesOfOrder
         /\ Keys3(b.ByGroupKindVersion) = {<<t[1], t[3], t[2]>> : t \in TriplesOfOrder}
         /\ \A t \in TriplesOfOrder :
              LET r == b.ByGroupVersionKind[t[1]][t[2]][t[3]]
                  c == LastDeclared(t[1], t[2], t[3])
              IN /\ b.ByGroupKindVersion[t[1]][t[3]][t[2]] = r
                 /\ r.Type = c
                 /\ r.Group = t[1] /\ r.Version = t[2] /\ r.Kind = t[3]
                 /\ r.NonNamespaced = universe.Types[c].IsNonNamespaced
    /\ FatalInParseIndex =>
         err = IndexDecl(universe, ParseIndexInit(b), universe.Order[loc.i - 1]).err

\* g/v1/K was declared twice, then g/v2/K: no error, and both indices hold the
\* second declaration of g/v1/K
C12_Witness ==
    /\ IndexComplete
    /\ err = NoErr
    /\ universe.Order = <<1, 2, 3>>
    /\ b.ByGroupVersionKind[v_g][v_v1][v_K].Type = 2
    /\ b.ByGroupKindVersion[v_g][v_K][v_v1].Type = 2
    /\ b.ByGroupKindVersion[v_g][v_K][v_v2].Type = 3

(***************************************************************************)
(* The assembled model and the index                                       *)
(***************************************************************************)
\* ParseAPIs has returned
ParseAPIsOver == pc = "done"

\* the (group, version, kind) of every resource of the model
ModelTriples(apis) ==
    UNION {UNION {{<<g, v, k>> : k \in DOMAIN apis.Groups[g].Versions[v].Resources} :
                  v \in DOMAIN apis.Groups[g].Versions} :
           g \in DOMAIN apis.Groups}

CarriedFields ==
    {"Domain", "Group", "Version", "Kind", "Resource", "REST", "Strategy",
     "StatusStrategy", "NonNamespaced", "Type", "Subresources"}

\* C13: after ParseAPIs, the model has a group for each group of the index,
\* a version for each of its versions and a resource for exactly the triples
\* of ByGroupVersionKind; each resource of the model carries the domain, group,
\* version, kind, resource, REST, strategy, status strategy, non-namespaced
\* flag, type and subresources of its index entry; and both indices are as
\* ParseIndex left them
C13_FoldOfIndex ==
    ParseAPIsOver =>
      /\ DOMAIN b.APIs.Groups = DOMAIN b.ByGroupVersionKind
      /\ \A g \in DOMAIN b.APIs.Groups :
           DOMAIN b.APIs.Groups[g].Versions = DOMAIN b.ByGroupVersionKind[g]
      /\ ModelTriples(b.APIs) = Keys3(b.ByGroupVersionKind)
      /\ \A t \in Keys3(b.ByGroupVersionKind) :
           \A f \in CarriedFields :
             b.APIs.Groups[t[1]].Versions[t[2]].Resources[t[3]][f]
               = b.ByGroupVersionKind[t[1]][t[2]][t[3]][f]
      /\ IndexContent(b) = IndexContent(ParseIndexOver(universe.Order).b)

\* the model of g/v1/K, with its subresource "scale", and of g/v2/K
C13_Witness ==
    /\ ParseAPIsOver
    /\ universe.Order = <<1, 3>>
    /\ ModelTriples(b.APIs) = {<<v_g, v_v1, v_K>>, <<v_g, v_v2, v_K>>}
    /\ DOMAIN b.APIs.Groups[v_g].Versions[v_v1].Resources[v_K].Subresources = {v_scale}
    /\ b.APIs.Groups[v_g].Versions[v_v2].Resources[v_K].Strategy = v_MyStrategy

=============================================================================
